---- MODULE Spec2Model ----
(***************************************************************************)
(* Model of active_tender.py: the record-normalisation and lot-aggregation *)
(* engine of the TED tender fetcher.                                       *)
(*                                                                         *)
(* Python values are tagged records.  A string is the sequence of its      *)
(* words, so that joining, searching for a phrase and emptiness are        *)
(* computed rather than assumed.  A dict is the sequence of its            *)
(* <<key, value>> pairs in insertion order.  An exception that leaves a    *)
(* function is the value Raise(name).                                      *)
(***************************************************************************)
EXTENDS Integers, Sequences, FiniteSets, TLC

VARIABLES
    \* one call of get_value
    gv_pc, gv_data, gv_default, gv_result

gv_vars == <<gv_pc, gv_data, gv_default, gv_result>>

VARIABLES
    \* the financial section of parse_tender
    fin_pc, fin_cur, fin_lot, fin, fin_read_lot

fin_vars == <<fin_pc, fin_cur, fin_lot, fin, fin_read_lot>>

VARIABLES
    \* main: the records fetched, the position in main, the groups and the
    \* Tenders of detect_and_process_multilot, the Tenders kept by the expiry
    \* filter, the metadata, the exception that ended the run
    notices, pc, ni, notice_groups, gi, parsed_tenders, tenders, metadata, raised,
    \* the wall clock and the hash seed of the interpreter
    clock, hashseed,
    \* the number of the run and what the first run wrote
    run, first_output

VARIABLES
    \* detect_and_process_multilot, inside one iteration over the groups: the
    \* Tender parse_tender returned and the lot identity found for the group
    tender, group_is_multi_lot, group_total_lots, group_unique_lots

group_vars == <<tender, group_is_multi_lot, group_total_lots, group_unique_lots>>

main_vars == <<notices, pc, ni, notice_groups, gi, parsed_tenders, tenders,
               metadata, raised, clock, hashseed, run, first_output, group_vars>>

VARIABLES
    \* the urgency of one deadline, as parse_tender computes it
    urg_pc, urg_deadline, urg_days, urg_label

urg_vars == <<urg_pc, urg_deadline, urg_days, urg_label>>

VARIABLES
    \* one call of extract_lot_count_from_text
    txt_pc, txt_notice, txt_count

txt_vars == <<txt_pc, txt_notice, txt_count>>

VARIABLES
    \* fetch_all_tenders: the records the API has, the position in the function, its page counter, the total of page 1, the records accumulated, and the responses received
    fetch_pc, api_hits, page, total, all_notices, responses

fetch_vars == <<fetch_pc, api_hits, page, total, all_notices, responses>>

\* the variables of the single functions modelled on their own
unit_vars == <<urg_vars, txt_vars, fetch_vars>>

vars == <<gv_vars, fin_vars, main_vars, unit_vars>>

-----------------------------------------------------------------------------
(* Bounds of the model *)

\* longest sequence-valued field drawn as an input of get_value
MaxLen == 2

\* most records in one batch
MaxRecords == 2

\* most ticks of the clock during the runs
MaxTicks == 1

-----------------------------------------------------------------------------
(* Python values *)

None == [k |-> "null"]

VStr(w) == [k |-> "str", w |-> w]

VInt(n) == [k |-> "int", n |-> n]

\* a float, held exactly: u whole units and r/RateScale, 0 <= r < RateScale
VFloat(u, r) == [k |-> "float", u |-> u, r |-> r]

VBool(b) == [k |-> "bool", b |-> b]

VList(xs) == [k |-> "list", xs |-> xs]

VDict(es) == [k |-> "dict", es |-> es]

Raise(e) == [k |-> "raise", e |-> e]

IsRaise(v) == v.k = "raise"

IsScalar(v) == v.k \in {"str", "int", "float", "bool"}

\* bool(v): Python truthiness
Truthy(v) ==
    CASE v.k = "null" -> FALSE
      [] v.k = "str"  -> Len(v.w) > 0
      [] v.k = "int"  -> v.n # 0
      [] v.k = "float" -> v.u # 0 \/ v.r # 0
      [] v.k = "bool" -> v.b
      [] v.k = "list" -> Len(v.xs) > 0
      [] v.k = "dict" -> Len(v.es) > 0
      [] OTHER        -> TRUE

\* key in d
HasKey(d, key) == \E i \in 1..Len(d.es) : d.es[i][1] = key

\* d[key], for a key that is present
Lookup(d, key) ==
    LET i == CHOOSE j \in 1..Len(d.es) : d.es[j][1] = key IN d.es[i][2]

\* d.get(key, dflt)
DictGet(d, key, dflt) == IF HasKey(d, key) THEN Lookup(d, key) ELSE dflt

\* F applied to the value of v, which is computed once
Let(v, F(_)) == CHOOSE y \in {F(x) : x \in {v}} : TRUE

\* xs[0]
Index0(v) == IF Len(v.xs) = 0 THEN Raise("IndexError") ELSE v.xs[1]

-----------------------------------------------------------------------------
(* get_value *)

LangPriority == <<"eng", "dan", "deu", "swe", "nor", "fra", "spa", "ita">>

\* the body of both dict branches: first element of a non-empty list,
\* else the value if truthy, else the default
FirstOrValue(value, default) ==
    IF value.k = "list" /\ Truthy(value) THEN Index0(value)
    ELSE IF Truthy(value) THEN value ELSE default

\* get_value without the branch for a top-level list: the list is returned
get_value_keep_list(data, default) ==
    IF data = None THEN default
    ELSE IF data.k = "dict" /\ Truthy(data) THEN
        IF \E i \in 1..Len(LangPriority) : HasKey(data, LangPriority[i])
        THEN LET i == CHOOSE j \in 1..Len(LangPriority) :
                          /\ HasKey(data, LangPriority[j])
                          /\ \A h \in 1..(j-1) : ~HasKey(data, LangPriority[h])
             IN  FirstOrValue(Lookup(data, LangPriority[i]), default)
        ELSE FirstOrValue(data.es[1][2], default)
    ELSE IF Truthy(data) THEN data ELSE default

get_value(data, default) ==
    IF data = None THEN default
    ELSE IF data.k = "dict" /\ Truthy(data) THEN
        IF \E i \in 1..Len(LangPriority) : HasKey(data, LangPriority[i])
        THEN LET i == CHOOSE j \in 1..Len(LangPriority) :
                          /\ HasKey(data, LangPriority[j])
                          /\ \A h \in 1..(j-1) : ~HasKey(data, LangPriority[h])
             IN  FirstOrValue(Lookup(data, LangPriority[i]), default)
        ELSE FirstOrValue(data.es[1][2], default)
    ELSE IF data.k = "list" /\ Truthy(data) THEN Index0(data)
    ELSE IF Truthy(data) THEN data ELSE default

-----------------------------------------------------------------------------
(* Words: the conversions the code applies to the text of a string *)

\* str.upper() of one word
UpperWord(w) ==
    CASE w = "dkk" -> "DKK"
      [] w = "Dkk" -> "DKK"
      [] w = "eur" -> "EUR"
      [] w = "lot-0001" -> "LOT-0001"
      [] w = "lot-0002" -> "LOT-0002"
      [] w = "lot-0003" -> "LOT-0003"
      [] w = "lot-0004" -> "LOT-0004"
      [] w = "lot-0000" -> "LOT-0000"
      [] OTHER -> w

\* str.lower() of one word
LowerWord(w) ==
    CASE w = "DKK" -> "dkk"
      [] w = "Dkk" -> "dkk"
      [] w = "EUR" -> "eur"
      [] w = "LOT-0001" -> "lot-0001"
      [] w = "LOT-0002" -> "lot-0002"
      [] w = "LOT-0003" -> "lot-0003"
      [] w = "LOT-0004" -> "lot-0004"
      [] w = "LOT-0000" -> "lot-0000"
      [] w = "Divided" -> "divided"
      [] OTHER -> w

\* the words that are decimal numerals, and the number each denotes
Numerals == {"0", "1", "2", "3", "5", "12000", "49999", "50000"}

NumeralValue(w) ==
    CASE w = "0" -> 0
      [] w = "1" -> 1
      [] w = "2" -> 2
      [] w = "3" -> 3
      [] w = "5" -> 5
      [] w = "12000" -> 12000
      [] w = "49999" -> 49999
      [] w = "50000" -> 50000

-----------------------------------------------------------------------------
(* CURRENCY_RATES and the financial section of parse_tender *)

\* the rates are held as integers, in units of 1/RateScale
RateScale == 10000

RateCodes == {"EUR", "DKK", "NOK", "SEK", "USD", "GBP", "PLN", "CZK", "HUF"}

\* CURRENCY_RATES[code] * RateScale
CURRENCY_RATES(code) ==
    CASE code = "EUR" -> 10000
      [] code = "DKK" -> 1340
      [] code = "NOK" -> 840
      [] code = "SEK" -> 890
      [] code = "USD" -> 9500
      [] code = "GBP" -> 11700
      [] code = "PLN" -> 2300
      [] code = "CZK" -> 400
      [] code = "HUF" -> 25

\* a lookup whose default multiplier is 0.0
RateGetOrZero(code) == IF code \in RateCodes THEN CURRENCY_RATES(code) ELSE 0

\* CURRENCY_RATES.get(code, 1.0) * RateScale
RateGet(code) == IF code \in RateCodes THEN CURRENCY_RATES(code) ELSE RateScale

\* float(amount)
ToFloat(v) ==
    CASE v.k = "int" -> VFloat(v.n, 0)
      [] v.k = "float" -> v
      [] v.k = "bool" -> VFloat(IF v.b THEN 1 ELSE 0, 0)
      [] v.k = "str" ->
            IF Len(v.w) = 1 /\ v.w[1] \in Numerals
            THEN VFloat(NumeralValue(v.w[1]), 0)
            ELSE Raise("ValueError")
      [] OTHER -> Raise("TypeError")

\* currency.upper(), as the key looked up in CURRENCY_RATES
UpperCode(v) ==
    IF v.k # "str" THEN Raise("AttributeError")
    ELSE IF Len(v.w) = 1 THEN VStr(<<UpperWord(v.w[1])>>)
    ELSE VStr([i \in 1..Len(v.w) |-> UpperWord(v.w[i])])

\* value_original * rate, for a whole amount; the product is split so that
\* no intermediate exceeds the integers TLC computes with
TimesRate(f, rate) ==
    LET hi == (f.u \div RateScale) * rate
        lo == (f.u % RateScale) * rate
    IN  VFloat(hi + (lo \div RateScale), lo % RateScale)

\* a or b
PyOr(a, b) == IF Truthy(a) THEN a ELSE b

FinStart == [value_eur |-> None, value_original |-> None, currency |-> None,
             value_category |-> None]

\* lines 528-534 and 546-552: the amount and currency of a dict, converted.
\* An exception leaves the assignments made before it in place.
ConvertAmount(f, amount, currency) ==
    LET f1 == [f EXCEPT !.currency = currency] IN
    IF ~Truthy(amount) THEN f1
    ELSE IF IsRaise(ToFloat(amount)) THEN f1
    ELSE LET f2 == [f1 EXCEPT !.value_original = ToFloat(amount)] IN
         IF IsRaise(UpperCode(currency)) THEN f2
         ELSE LET code == UpperCode(currency).w
                  rate == IF Len(code) = 1 THEN RateGet(code[1]) ELSE RateScale
              IN  [f2 EXCEPT !.value_eur = TimesRate(f2.value_original, rate)]

\* value_cur_data[0] of a non-empty list, else the value itself
Unlist(v) == IF v.k = "list" /\ Truthy(v) THEN Index0(v) ELSE v

\* lines 521-536: try estimated-value-cur-lot
TryCurrencyTagged(f, value_cur_data) ==
    IF ~Truthy(value_cur_data) THEN f
    ELSE LET d == Unlist(value_cur_data) IN
         IF d.k = "dict"
         THEN ConvertAmount(f, DictGet(d, "amount", None),
                               DictGet(d, "currency", VStr(<<"EUR">>)))
         ELSE f

\* lines 540-558: fall back to estimated-value-lot
TryCurrencyLess(f, value_lot_data) ==
    IF ~Truthy(value_lot_data) THEN f
    ELSE LET d == Unlist(value_lot_data) IN
         IF d.k = "dict"
         THEN ConvertAmount(f, PyOr(DictGet(d, "amount", None),
                                    DictGet(d, "value", None)),
                               DictGet(d, "currency", VStr(<<"EUR">>)))
         ELSE IF d.k \in {"int", "float", "bool"}
         THEN [f EXCEPT !.value_eur = ToFloat(d), !.value_original = ToFloat(d),
                        !.currency = VStr(<<"EUR">>)]
         ELSE f

\* a fallback decided on value_original instead of value_eur
NeedsFallbackOnOriginal(f) == f.value_original = None

\* line 539: if value_eur is None
NeedsFallback(f) == f.value_eur = None

\* lines 563-572: the bracket limits, in the reference currency
MicroLimit == 50000

SmallLimit == 500000

MediumLimit == 5000000

LargeLimit == 50000000

\* brackets whose upper limits are inclusive
ValueCategoryInclusive(f) ==
    IF ~Truthy(f.value_eur) THEN [f EXCEPT !.value_category = None]
    ELSE LET v == f.value_eur IN
         [f EXCEPT !.value_category =
            IF v.u < MicroLimit \/ v = VFloat(MicroLimit, 0) THEN VStr(<<"MICRO">>)
            ELSE IF v.u < SmallLimit \/ v = VFloat(SmallLimit, 0) THEN VStr(<<"SMALL">>)
            ELSE IF v.u < MediumLimit \/ v = VFloat(MediumLimit, 0) THEN VStr(<<"MEDIUM">>)
            ELSE IF v.u < LargeLimit \/ v = VFloat(LargeLimit, 0) THEN VStr(<<"LARGE">>)
            ELSE VStr(<<"MEGA">>)]

\* lines 560-572: value category
ValueCategory(f) ==
    IF ~Truthy(f.value_eur) THEN [f EXCEPT !.value_category = None]
    ELSE LET v == f.value_eur.u IN   \* u + r/RateScale < L  iff  u < L
         [f EXCEPT !.value_category =
            IF v < MicroLimit THEN VStr(<<"MICRO">>)
            ELSE IF v < SmallLimit THEN VStr(<<"SMALL">>)
            ELSE IF v < MediumLimit THEN VStr(<<"MEDIUM">>)
            ELSE IF v < LargeLimit THEN VStr(<<"LARGE">>)
            ELSE VStr(<<"MEGA">>)]

\* lines 516-572 as one function of the two amount fields
Financial(value_cur_data, value_lot_data) ==
    LET f1 == TryCurrencyTagged(FinStart, value_cur_data) IN
    ValueCategory(IF NeedsFallback(f1) THEN TryCurrencyLess(f1, value_lot_data)
                  ELSE f1)

-----------------------------------------------------------------------------
(* Records *)

\* notice.get(field): None when the key is absent; a record that is not a
\* mapping has no get
Get(notice, field) ==
    IF notice.k = "dict" THEN DictGet(notice, field, None)
    ELSE Raise("AttributeError")

\* hash(v) fails for lists and dicts
Hashable(v) == v.k \notin {"list", "dict"}

\* the elements of a sequence, as a set
Range(xs) == {xs[i] : i \in 1..Len(xs)}

-----------------------------------------------------------------------------
(* parse_date and calculate_days_until *)

\* a string in ISO format that denotes the instant t (in clock ticks)
VIso(t) == [k |-> "iso", t |-> t]

\* clock ticks in a day
TicksPerDay == 2

\* datetime.fromisoformat(word.replace("Z", "+00:00")): midnight UTC of the
\* day named, for the date strings of the inputs; any other word fails
IsoDates == {"2026-01-09T00:00:00Z", "2026-01-10T00:00:00Z",
             "2026-01-15T00:00:00Z"}

IsoDay(w) ==
    CASE w = "2026-01-09T00:00:00Z" -> 9
      [] w = "2026-01-10T00:00:00Z" -> 10
      [] w = "2026-01-15T00:00:00Z" -> 15

\* the wall clock when a run starts: midnight of 2026-01-10
Now0 == 10 * TicksPerDay

parse_date(date_str) ==
    IF ~Truthy(date_str) THEN None
    ELSE LET d == get_value(date_str, None) IN
         IF d.k = "str" /\ Len(d.w) = 1 /\ d.w[1] \in IsoDates
         THEN VIso(IsoDay(d.w[1]) * TicksPerDay)
         ELSE None

\* floor(a / b) for b > 0, which is what timedelta.days is
FloorDiv(a, b) == IF a >= 0 THEN a \div b ELSE -(((-a) + b - 1) \div b)

\* now is the clock read inside the function (line 215)
calculate_days_until(deadline_iso, now) ==
    IF deadline_iso.k = "iso"
    THEN VInt(FloorDiv(deadline_iso.t - now, TicksPerDay))
    ELSE None

\* lines 476-487; the band limits
CriticalDays == 7

ModerateDays == 14

\* bands whose upper limits are exclusive
UrgencyExclusive(days_until) ==
    IF days_until # None
    THEN IF days_until.n < 0 THEN "EXPIRED"
         ELSE IF days_until.n < CriticalDays THEN "CRITICAL"
         ELSE IF days_until.n < ModerateDays THEN "MODERATE"
         ELSE "NORMAL"
    ELSE "UNKNOWN"

Urgency(days_until) ==
    IF days_until # None
    THEN IF days_until.n < 0 THEN "EXPIRED"
         ELSE IF days_until.n <= CriticalDays THEN "CRITICAL"
         ELSE IF days_until.n <= ModerateDays THEN "MODERATE"
         ELSE "NORMAL"
    ELSE "UNKNOWN"

-----------------------------------------------------------------------------
(* extract_lot_count_from_text *)

TextFields == <<"description-lot", "description-proc", "procedure-features",
                "title-lot", "notice-title">>

\* text.lower()
Lower(v) == IF v.k = "str" THEN VStr([i \in 1..Len(v.w) |-> LowerWord(v.w[i])])
            ELSE Raise("AttributeError")

\* lines 251-259: the lowered texts of the fields, joined; a field whose
\* value is truthy and not a string has no lower()
FieldText(notice, field) ==
    LET value == Get(notice, field)
        text  == get_value(value, None)
    IN  IF ~Truthy(value) \/ ~Truthy(text) THEN VStr(<<>>) ELSE Lower(text)

JoinTexts(notice) ==
    IF \E i \in 1..Len(TextFields) : IsRaise(FieldText(notice, TextFields[i]))
    THEN Raise("AttributeError")
    ELSE VStr(FieldText(notice, TextFields[1]).w \o FieldText(notice, TextFields[2]).w
              \o FieldText(notice, TextFields[3]).w \o FieldText(notice, TextFields[4]).w
              \o FieldText(notice, TextFields[5]).w)

\* the patterns of lines 262-268, word by word; "(\d+)" and "(\w+)" are the
\* capturing groups
Patterns == << <<"divided", "into", "(\\d+)", "lots">>,
               <<"(\\d+)", "separate", "lots">>,
               <<"opdelt", "i", "(\\d+)", "delaftaler">>,
               <<"(\\d+)", "delaftaler">>,
               <<"de", "(\\w+)", "kategorier">> >>

DanishWords == {"to", "tre", "fire", "fem", "seks", "syv", "otte", "ni", "ti"}

danish_numbers(w) ==
    CASE w = "to" -> 2 [] w = "tre" -> 3 [] w = "fire" -> 4 [] w = "fem" -> 5
      [] w = "seks" -> 6 [] w = "syv" -> 7 [] w = "otte" -> 8 [] w = "ni" -> 9
      [] w = "ti" -> 10

\* the pattern matches the words of ws that start at position i
MatchesAt(ws, pat, i) ==
    /\ i + Len(pat) - 1 <= Len(ws)
    /\ \A j \in 1..Len(pat) :
          CASE pat[j] = "(\\d+)" -> ws[i + j - 1] \in Numerals
            [] pat[j] = "(\\w+)" -> TRUE
            [] OTHER -> ws[i + j - 1] = pat[j]

Matches(ws, pat) == \E i \in 1..Len(ws) : MatchesAt(ws, pat, i)

\* match.group(1) of re.search: the captured word of the leftmost match
Group1(ws, pat) ==
    LET i == CHOOSE a \in 1..Len(ws) :
                 MatchesAt(ws, pat, a) /\ \A b \in 1..(a-1) : ~MatchesAt(ws, pat, b)
        j == CHOOSE c \in 1..Len(pat) : pat[c] \in {"(\\d+)", "(\\w+)"}
    IN  ws[i + j - 1]

\* lines 276-285: the first pattern whose captured word is a number decides
\* the pattern matches and its captured word is a number or a number word
Decides(ws, pat) ==
    Matches(ws, pat) /\ Group1(ws, pat) \in Numerals \cup DanishWords

FromPatterns(ws) ==
    IF \E p \in 1..Len(Patterns) : Decides(ws, Patterns[p])
    THEN LET p == CHOOSE a \in 1..Len(Patterns) :
                      /\ Decides(ws, Patterns[a])
                      /\ \A b \in 1..(a-1) : ~Decides(ws, Patterns[b])
             num_str == Group1(ws, Patterns[p])
         IN  IF num_str \in Numerals THEN VInt(NumeralValue(num_str))
             ELSE VInt(danish_numbers(num_str))
    ELSE None

\* re.findall(r'LOT-(\d+)', full_text.upper()), as numbers
LotWords == {"LOT-0000", "LOT-0001", "LOT-0002", "LOT-0003", "LOT-0004"}

LotNumber(w) ==
    CASE w = "LOT-0000" -> 0 [] w = "LOT-0001" -> 1 [] w = "LOT-0002" -> 2
      [] w = "LOT-0003" -> 3 [] w = "LOT-0004" -> 4

LotMentions(ws) ==
    SelectSeq([i \in 1..Len(ws) |-> UpperWord(ws[i])], LAMBDA w : w \in LotWords)

SetMax(S) == CHOOSE m \in S : \A n \in S : n <= m

\* lines 287-296
FromMentions(ws) ==
    LET lot_mentions == LotMentions(ws)
        positive == {LotNumber(lot_mentions[i]) : i \in 1..Len(lot_mentions)} \ {0}
    IN  IF Len(lot_mentions) > 1 /\ positive # {} THEN VInt(SetMax(positive))
        ELSE None

\* the LOT- mentions asked before the phrases
CountInTextMentionsFirst(full_text) ==
    IF IsRaise(full_text) THEN full_text
    ELSE Let(FromMentions(full_text.w),
             LAMBDA n : IF n # None THEN n ELSE FromPatterns(full_text.w))

\* lines 261-296, on the joined text
CountInText(full_text) ==
    IF IsRaise(full_text) THEN full_text
    ELSE Let(FromPatterns(full_text.w),
             LAMBDA n : IF n # None THEN n ELSE FromMentions(full_text.w))

extract_lot_count_from_text(notice) == Let(JoinTexts(notice), CountInText)

-----------------------------------------------------------------------------
(* parse_tender *)

Sentinel == VStr(<<"LOT-0000">>)

\* a value that is not a list is wrapped in one if it is truthy, else dropped
\* (lines 576-577, 826-830, 853-854)
AsList(v) == IF v.k = "list" THEN v.xs ELSE IF Truthy(v) THEN <<v>> ELSE <<>>

Reverse(q) == [i \in 1..Len(q) |-> q[Len(q) + 1 - i]]

\* list(set(xs)): the order in which a set of strings is iterated depends on
\* the interpreter's hash seed, which is drawn when the process starts
SetToList(S, seed) ==
    LET q == CHOOSE f \in [1..Cardinality(S) -> S] : Range(f) = S IN
    IF seed = 0 THEN q ELSE Reverse(q)

\* lines 575-588
Classification(notice, seed) ==
    LET cpv_data == AsList(Get(notice, "classification-cpv"))
        head     == IF Len(cpv_data) > 1 THEN Tail(cpv_data) ELSE <<>>
        raw      == Get(notice, "additional-classification-lot")
        extended == IF Truthy(raw) THEN head \o AsList(raw) ELSE head
        kept     == SelectSeq(extended, Truthy)
    IN  IF \E c \in Range(kept) : ~Hashable(c) THEN Raise("TypeError")
        ELSE [k |-> "classification",
              cpv_code |-> IF Len(cpv_data) > 0 THEN cpv_data[1] ELSE None,
              cpv_codes_additional |-> SetToList(Range(kept), seed)]

\* a variant of lines 604-611 that looks at the identifiers alone
OwnMultiLotByIdentifiers(notice, total_lots, lot_identifiers) ==
    Cardinality({lid \in lot_identifiers : Truthy(lid) /\ lid # Sentinel}) > 1

\* lines 598-611: the flag parse_tender computes itself
OwnMultiLot(notice, total_lots, lot_identifiers) ==
    LET lot_id == PyOr(get_value(Get(notice, "identifier-lot"), None), Sentinel)
        unique_lots == {lid \in lot_identifiers : Truthy(lid) /\ lid # Sentinel}
    IN  IF lot_identifiers # {}
        THEN \/ Cardinality(unique_lots) > 1
             \/ Cardinality(unique_lots) = 1 /\ total_lots > 1
        ELSE lot_id # Sentinel /\ total_lots > 1

\* lines 468-487
MainDeadline(notice) ==
    LET deadline_tender  == parse_date(Get(notice, "deadline-receipt-tender-date-lot"))
        deadline_request == parse_date(Get(notice, "deadline-receipt-request-date-lot"))
        deadline_eoi     == parse_date(Get(notice, "deadline-receipt-expressions-date-lot"))
    IN  PyOr(deadline_tender, PyOr(deadline_request, deadline_eoi))

Dates(notice, now) ==
    Let(MainDeadline(notice), LAMBDA main_deadline :
    Let(calculate_days_until(main_deadline, now), LAMBDA days_until :
        [deadline_main |-> main_deadline,
         days_until_deadline |-> days_until,
         urgency_level |-> Urgency(days_until),
         is_expired |-> Urgency(days_until) = "EXPIRED"]))

\* The sections of the Tender that the lot logic, the expiry filter, the
\* statistics and the clock decide.  now is the clock at the call, seed the
\* hash seed of the process.
parse_tender(notice, total_lots, lot_identifiers, now, seed) ==
    Let(Classification(notice, seed), LAMBDA cls :
    IF IsRaise(cls) THEN cls
    ELSE [k |-> "tender",
          notice_identifier |-> Get(notice, "notice-identifier"),
          dates |-> Dates(notice, now),
          financial |-> Financial(Get(notice, "estimated-value-cur-lot"),
                                  Get(notice, "estimated-value-lot")),
          classification |-> cls,
          strategic |->
              [is_multi_lot |-> OwnMultiLot(notice, total_lots, lot_identifiers),
               lot_identifier |->
                   PyOr(get_value(Get(notice, "identifier-lot"), None), Sentinel),
               total_lots |-> total_lots,
               lot_identifiers |-> None],
          metadata |-> [fetched_at |-> VIso(now)]])

-----------------------------------------------------------------------------
(* detect_and_process_multilot *)

\* a variant of lines 819-836 that puts a new group before the older ones
GroupOneNewestFirst(groups, notice) ==
    LET notice_id == Get(notice, "notice-identifier") IN
    IF IsRaise(notice_id) THEN notice_id
    ELSE IF ~Truthy(notice_id) THEN [k |-> "groups", groups |-> groups]
    ELSE IF ~Hashable(notice_id) THEN Raise("TypeError")
    ELSE IF \E g \in 1..Len(groups) : groups[g].id = notice_id
         THEN LET g == CHOOSE h \in 1..Len(groups) : groups[h].id = notice_id IN
              [k |-> "groups",
               groups |-> [groups EXCEPT ![g].lot_data = Append(@, notice)]]
         ELSE [k |-> "groups",
               groups |-> <<[id |-> notice_id, lot_data |-> <<notice>>]>> \o groups]

\* lines 819-836, one notice: the groups after it, or the exception
GroupOne(groups, notice) ==
    LET notice_id == Get(notice, "notice-identifier") IN
    IF IsRaise(notice_id) THEN notice_id
    ELSE IF ~Truthy(notice_id) THEN [k |-> "groups", groups |-> groups]
    ELSE IF ~Hashable(notice_id) THEN Raise("TypeError")
    ELSE IF \E g \in 1..Len(groups) : groups[g].id = notice_id
         THEN LET g == CHOOSE h \in 1..Len(groups) : groups[h].id = notice_id IN
              [k |-> "groups",
               groups |-> [groups EXCEPT ![g].lot_data = Append(@, notice)]]
         ELSE [k |-> "groups",
               groups |-> Append(groups, [id |-> notice_id, lot_data |-> <<notice>>])]

\* sorted(S) compares the elements: strings with strings, numbers with numbers
Sortable(S) ==
    \/ \A x \in S : x.k \in {"str", "iso"}
    \/ \A x \in S : x.k \in {"int", "float", "bool"}

\* notice_id[:8]
Sliceable(v) == v.k \in {"str", "iso", "list"}

\* lines 857-860: the non-sentinel lot identifiers of one record
NonSentinel(notice) ==
    SelectSeq(AsList(Get(notice, "identifier-lot")),
              LAMBDA lid : Truthy(lid) /\ lid # Sentinel)

\* the lot identifiers collected over every record of the group
LotIdsOfAllRecords(lot_data) ==
    UNION {Range(NonSentinel(lot_data[i])) : i \in 1..Len(lot_data)}

\* line 849-860: the lot identifiers the code counts, those of the group's
\* first record
CountedLotIds(lot_data) == Range(NonSentinel(lot_data[1]))

\* free text consulted also when there is no identifier
TextDecidesAlways(display_total_lots) == display_total_lots <= 1

\* lines 864 and 870: free text is consulted for exactly one identifier
TextDecides(display_total_lots) == display_total_lots = 1

\* any count found in the text taken for several lots
TextSaysAny(text_lot_count) == Truthy(text_lot_count)

\* line 875: if text_lot_count and text_lot_count > 1
TextSaysMulti(text_lot_count) == Truthy(text_lot_count) /\ text_lot_count.n > 1

\* lines 849-892: is_multi_lot and display_total_lots of a group
LotIdentity(notice_id, lot_data) ==
    LET first_notice == lot_data[1]
        lot_identifiers == NonSentinel(first_notice)
    IN
    IF \E lid \in Range(lot_identifiers) : ~Hashable(lid) THEN Raise("TypeError")
    ELSE
    LET unique_lots == CountedLotIds(lot_data)
        display_total_lots == Cardinality(unique_lots)
    IN
    IF TextDecides(display_total_lots)
    THEN Let(extract_lot_count_from_text(first_notice), LAMBDA text_lot_count :
         IF IsRaise(text_lot_count) THEN text_lot_count
         ELSE IF TextSaysMulti(text_lot_count)
         THEN IF ~Sliceable(notice_id) THEN Raise("TypeError")
              ELSE [k |-> "lots", is_multi_lot |-> TRUE,
                    display_total_lots |-> text_lot_count.n,
                    unique_lots |-> unique_lots]
         ELSE [k |-> "lots", is_multi_lot |-> FALSE, display_total_lots |-> 1,
               unique_lots |-> unique_lots])
    ELSE IF display_total_lots = 0
    THEN [k |-> "lots", is_multi_lot |-> FALSE, display_total_lots |-> 1,
          unique_lots |-> unique_lots]
    ELSE IF ~Sliceable(notice_id) \/ ~Sortable(unique_lots) THEN Raise("TypeError")
    ELSE [k |-> "lots", is_multi_lot |-> TRUE, display_total_lots |-> display_total_lots,
          unique_lots |-> unique_lots]

\* lines 902-908: the group's lot identity written over the Tender's own
Override(t, multi, total_lots, lots) ==
    [t EXCEPT
        !.strategic.is_multi_lot = multi,
        !.strategic.total_lots = total_lots,
        !.strategic.lot_identifiers =
            IF multi /\ lots # {}
            THEN VList(SetToList(lots, 0))
            ELSE None]

-----------------------------------------------------------------------------
(* Inputs of get_value: the field shapes of a RawRecord *)

SeqsUpTo(S, n) == UNION {[1..m -> S] : m \in 0..n}

GvScalars == {VStr(<<>>), VStr(<<"a">>), VInt(0), VBool(TRUE)}

GvLists == {VList(xs) : xs \in SeqsUpTo(GvScalars, MaxLen)}

GvLangs == {"eng", "dan", "xx"}

GvDictValues == {None} \cup GvScalars \cup GvLists

GvEntries == GvLangs \X GvDictValues

GvDicts ==
    {VDict(<<>>)}
    \cup {VDict(<<e>>) : e \in GvEntries}
    \cup {VDict(<<p[1], p[2]>>) :
              p \in {q \in GvEntries \X GvEntries : q[1][1] # q[2][1]}}

GvData == {None} \cup GvScalars \cup GvLists \cup GvDicts

GvDefaults == {None, VStr(<<"dflt">>)}

GvInit ==
    /\ gv_pc = "call"
    /\ gv_data \in GvData
    /\ gv_default \in GvDefaults
    /\ gv_result = None
    /\ fin_pc = "idle"
    /\ fin_cur = None
    /\ fin_lot = None
    /\ fin = FinStart
    /\ fin_read_lot = FALSE
    /\ notices = <<>>
    /\ pc = "idle"
    /\ ni = 1
    /\ notice_groups = <<>>
    /\ gi = 1
    /\ parsed_tenders = <<>>
    /\ tenders = <<>>
    /\ metadata = None
    /\ raised = "none"
    /\ clock = Now0
    /\ hashseed = 0
    /\ run = 1
    /\ first_output = None
    /\ urg_pc = "idle"
    /\ urg_deadline = None
    /\ urg_days = None
    /\ urg_label = "UNKNOWN"
    /\ txt_pc = "idle"
    /\ txt_notice = None
    /\ txt_count = None
    /\ fetch_pc = "idle"
    /\ api_hits = 0
    /\ page = 1
    /\ total = None
    /\ all_notices = <<>>
    /\ responses = <<>>
    /\ tender = None
    /\ group_is_multi_lot = FALSE
    /\ group_total_lots = 0
    /\ group_unique_lots = {}

GvCall ==
    /\ gv_pc = "call"
    /\ gv_result' = get_value(gv_data, gv_default)
    /\ gv_pc' = "done"
    /\ UNCHANGED <<gv_data, gv_default, fin_vars, main_vars, unit_vars>>

-----------------------------------------------------------------------------
(* The financial section of parse_tender, one step per block of the code *)

FinAmountEntries ==
    {<<>>} \cup {<< <<"amount", a>> >> :
                   a \in {None, VInt(0), VStr(<<"0">>), VInt(12000),
                          VStr(<<"12000">>), VStr(<<"abc">>)}}

FinCurrencyEntries ==
    {<<>>} \cup {<< <<"currency", c>> >> :
                   c \in {None, VStr(<<"DKK">>), VStr(<<"dkk">>),
                          VStr(<<"Dkk">>), VStr(<<"XXX">>), VInt(7)}}

FinValueEntries == {<<>>, << <<"value", VInt(700)>> >>}

FinCurDicts == {VDict(a \o c) : a \in FinAmountEntries, c \in FinCurrencyEntries}

FinLotDicts ==
    {VDict(a \o v \o c) : a \in FinAmountEntries, v \in FinValueEntries,
                          c \in {<<>>, << <<"currency", VStr(<<"DKK">>)>> >>,
                                 << <<"currency", None>> >>}}

FinOtherShapes ==
    {None, VList(<<>>), VInt(0), VInt(20000), VBool(TRUE), VStr(<<"12000">>),
     VList(<<VInt(5)>>),
     VList(<<VDict(<< <<"amount", VInt(5)>>, <<"currency", VStr(<<"EUR">>)>> >>)>>)}

FinCurPool == FinCurDicts \cup FinOtherShapes

\* bare amounts on either side of each bracket limit
FinBracketAmounts ==
    {VInt(n) : n \in {49999, 50000, 499999, 500000, 4999999, 5000000,
                       49999999, 50000000}}

FinLotPool == FinLotDicts \cup FinOtherShapes \cup FinBracketAmounts

FinInit ==
    /\ fin_pc = "first"
    /\ fin_cur \in FinCurPool
    /\ fin_lot \in FinLotPool
    /\ fin = FinStart
    /\ fin_read_lot = FALSE
    /\ gv_pc = "idle"
    /\ gv_data = None
    /\ gv_default = None
    /\ gv_result = None
    /\ notices = <<>>
    /\ pc = "idle"
    /\ ni = 1
    /\ notice_groups = <<>>
    /\ gi = 1
    /\ parsed_tenders = <<>>
    /\ tenders = <<>>
    /\ metadata = None
    /\ raised = "none"
    /\ clock = Now0
    /\ hashseed = 0
    /\ run = 1
    /\ first_output = None
    /\ urg_pc = "idle"
    /\ urg_deadline = None
    /\ urg_days = None
    /\ urg_label = "UNKNOWN"
    /\ txt_pc = "idle"
    /\ txt_notice = None
    /\ txt_count = None
    /\ fetch_pc = "idle"
    /\ api_hits = 0
    /\ page = 1
    /\ total = None
    /\ all_notices = <<>>
    /\ responses = <<>>
    /\ tender = None
    /\ group_is_multi_lot = FALSE
    /\ group_total_lots = 0
    /\ group_unique_lots = {}

\* lines 521-536
FinTryCurrencyTagged ==
    /\ fin_pc = "first"
    /\ fin' = TryCurrencyTagged(fin, fin_cur)
    /\ fin_pc' = "check"
    /\ UNCHANGED <<fin_cur, fin_lot, fin_read_lot, gv_vars, main_vars, unit_vars>>

\* lines 539-558, value_eur is None: estimated-value-lot is read
FinFallback ==
    /\ fin_pc = "check"
    /\ NeedsFallback(fin)
    /\ fin' = TryCurrencyLess(fin, fin_lot)
    /\ fin_read_lot' = TRUE
    /\ fin_pc' = "category"
    /\ UNCHANGED <<fin_cur, fin_lot, gv_vars, main_vars, unit_vars>>

\* line 539, value_eur is not None: the fallback block is skipped
FinNoFallback ==
    /\ fin_pc = "check"
    /\ ~NeedsFallback(fin)
    /\ fin_pc' = "category"
    /\ UNCHANGED <<fin_cur, fin_lot, fin, fin_read_lot, gv_vars, main_vars, unit_vars>>

\* lines 560-572
FinCategory ==
    /\ fin_pc = "category"
    /\ fin' = ValueCategory(fin)
    /\ fin_pc' = "done"
    /\ UNCHANGED <<fin_cur, fin_lot, fin_read_lot, gv_vars, main_vars, unit_vars>>

FinNext ==
    \/ FinTryCurrencyTagged
    \/ FinFallback
    \/ FinNoFallback
    \/ FinCategory

-----------------------------------------------------------------------------
(* main: the batches of records it is run on *)

HashSeeds == {0, 1}

Words(v) == VStr(v)

P1 == <<"notice-identifier", VStr(<<"P1">>)>>

P2 == <<"notice-identifier", VStr(<<"P2">>)>>

Lots(xs) == <<"identifier-lot", VList([i \in 1..Len(xs) |-> VStr(<<xs[i]>>)])>>

Deadline(w) == <<"deadline-receipt-tender-date-lot", VStr(<<w>>)>>

IntoThreeLots == VStr(<<"Divided", "into", "3", "lots">>)

RecordPool ==
    { \* one lot identifier each; the third as a bare string
      VDict(<<P1, Lots(<<"LOT-0001">>)>>),
      VDict(<<P1, Lots(<<"LOT-0002">>)>>),
      VDict(<<P1, <<"identifier-lot", VStr(<<"LOT-0003">>)>> >>),
      \* the array of a multi-lot notice
      VDict(<<P2, Lots(<<"LOT-0001", "LOT-0002", "LOT-0003">>),
              Deadline("2026-01-15T00:00:00Z")>>),
      \* no subdivision, with and without a text cue
      VDict(<<P2, Lots(<<"LOT-0000">>), <<"description-lot", IntoThreeLots>> >>),
      VDict(<<P1, Lots(<<"LOT-0000">>), Deadline("2026-01-09T00:00:00Z")>>),
      \* one identifier and a text cue: a multilingual title, a count of one
      VDict(<<P1, Lots(<<"LOT-0001">>),
              <<"notice-title", VDict(<< <<"dan", VStr(<<"de", "fem", "kategorier">>)>> >>)>> >>),
      VDict(<<P2, Lots(<<"LOT-0002">>),
              <<"description-proc", VStr(<<"divided", "into", "1", "lots">>)>> >>),
      \* a deadline at the instant the run starts, and three CPV codes
      VDict(<<P2, Deadline("2026-01-10T00:00:00Z"),
              <<"classification-cpv",
                VList(<<VStr(<<"72000000">>), VStr(<<"48000000">>), VStr(<<"30200000">>)>>)>> >>),
      \* no grouping key: absent, empty
      VDict(<<Lots(<<"LOT-0001", "LOT-0002">>)>>),
      VDict(<< <<"notice-identifier", VStr(<<>>)>>, Lots(<<"LOT-0001">>)>>),
      \* not a mapping
      VStr(<<"garbage">>),
      \* fields of a shape the code does not expect
      VDict(<<P1, <<"additional-classification-lot",
                    VDict(<< <<"eng", VStr(<<"72000000">>)>> >>)>> >>),
      VDict(<<P2, Lots(<<"LOT-0001">>), <<"description-lot", VInt(5)>> >>),
      VDict(<<P1, <<"identifier-lot", VDict(<< <<"eng", VStr(<<"LOT-0001">>)>> >>)>> >>) }

\* three records of one procurement, each carrying one lot of its own
ThreeLotRecords ==
    << VDict(<<P1, Lots(<<"LOT-0001">>)>>),
       VDict(<<P1, Lots(<<"LOT-0002">>)>>),
       VDict(<<P1, Lots(<<"LOT-0003">>)>>) >>

P3 == <<"notice-identifier", VStr(<<"P3">>)>>

\* three procurements, the records of the first around an expired second
InterleavedRecords ==
    << VDict(<<P2, Lots(<<"LOT-0002">>)>>),
       VDict(<<P1, Lots(<<"LOT-0000">>), Deadline("2026-01-09T00:00:00Z")>>),
       VDict(<<P2, Lots(<<"LOT-0001">>)>>),
       VDict(<<P3, Lots(<<"LOT-0001">>)>>) >>

\* the batches main is run on: every batch of up to MaxRecords records of the
\* pool, the three-lot procurement and the interleaved procurements
Batches ==
    SeqsUpTo(RecordPool, MaxRecords) \cup {ThreeLotRecords, InterleavedRecords}

MainInit ==
    /\ notices \in Batches
    /\ pc = "main"
    /\ ni = 1
    /\ notice_groups = <<>>
    /\ gi = 1
    /\ parsed_tenders = <<>>
    /\ tenders = <<>>
    /\ metadata = None
    /\ raised = "none"
    /\ clock = Now0
    /\ hashseed \in HashSeeds
    /\ run = 1
    /\ first_output = None
    /\ urg_pc = "idle"
    /\ urg_deadline = None
    /\ urg_days = None
    /\ urg_label = "UNKNOWN"
    /\ gv_pc = "idle"
    /\ gv_data = None
    /\ gv_default = None
    /\ gv_result = None
    /\ fin_pc = "idle"
    /\ fin_cur = None
    /\ fin_lot = None
    /\ fin = FinStart
    /\ fin_read_lot = FALSE
    /\ txt_pc = "idle"
    /\ txt_notice = None
    /\ txt_count = None
    /\ fetch_pc = "idle"
    /\ api_hits = 0
    /\ page = 1
    /\ total = None
    /\ all_notices = <<>>
    /\ responses = <<>>
    /\ tender = None
    /\ group_is_multi_lot = FALSE
    /\ group_total_lots = 0
    /\ group_unique_lots = {}

other_vars == <<gv_vars, fin_vars, unit_vars>>

\* lines 966-970: nothing fetched, main returns
NoTenders ==
    /\ pc = "main"
    /\ notices = <<>>
    /\ pc' = "done"
    /\ UNCHANGED <<notices, ni, notice_groups, gi, parsed_tenders, tenders,
                   metadata, raised, clock, hashseed, run, first_output, group_vars, other_vars>>

\* line 973: detect_and_process_multilot is called
CallDetect ==
    /\ pc = "main"
    /\ notices # <<>>
    /\ pc' = "group"
    /\ UNCHANGED <<notices, ni, notice_groups, gi, parsed_tenders, tenders,
                   metadata, raised, clock, hashseed, run, first_output, group_vars, other_vars>>

\* lines 819-836, one iteration
GroupNotice ==
    /\ pc = "group"
    /\ ni <= Len(notices)
    /\ \E r \in {GroupOne(notice_groups, notices[ni])} :
       IF IsRaise(r)
       THEN /\ pc' = "raised"
            /\ raised' = r.e
            /\ UNCHANGED <<ni, notice_groups>>
       ELSE /\ notice_groups' = r.groups
            /\ ni' = ni + 1
            /\ pc' = IF ni < Len(notices) THEN "group" ELSE "process"
            /\ UNCHANGED raised
    /\ UNCHANGED <<notices, gi, parsed_tenders, tenders, metadata, clock,
                   hashseed, run, first_output, group_vars, other_vars>>

\* lines 847-900, one iteration up to the call of parse_tender
ParseGroup ==
    /\ pc = "process"
    /\ gi <= Len(notice_groups)
    /\ \E li \in {LotIdentity(notice_groups[gi].id, notice_groups[gi].lot_data)} :
       IF IsRaise(li)
       THEN /\ pc' = "raised"
            /\ raised' = li.e
            /\ UNCHANGED group_vars
       ELSE /\ group_is_multi_lot' = li.is_multi_lot
            /\ group_total_lots' = li.display_total_lots
            /\ group_unique_lots' = li.unique_lots
            /\ \E t \in {parse_tender(notice_groups[gi].lot_data[1],
                                      li.display_total_lots, li.unique_lots,
                                      clock, hashseed)} :
               IF IsRaise(t)
               THEN /\ pc' = "raised"
                    /\ raised' = t.e
                    /\ UNCHANGED tender
               ELSE /\ tender' = t
                    /\ pc' = "override"
                    /\ UNCHANGED raised
    /\ UNCHANGED <<notices, ni, notice_groups, gi, parsed_tenders, tenders,
                   metadata, clock, hashseed, run, first_output, other_vars>>

\* lines 902-930, the rest of the iteration
OverrideGroup ==
    /\ pc = "override"
    /\ parsed_tenders' = Append(parsed_tenders, Override(tender, group_is_multi_lot,
                                     group_total_lots, group_unique_lots))
    /\ gi' = gi + 1
    /\ pc' = "process"
    /\ UNCHANGED <<notices, ni, notice_groups, tenders, metadata, raised, clock,
                   hashseed, run, first_output, group_vars, other_vars>>

\* line 942: the Tenders are returned to main
ReturnTenders ==
    /\ pc = "process"
    /\ gi > Len(notice_groups)
    /\ pc' = "filter"
    /\ UNCHANGED <<notices, ni, notice_groups, gi, parsed_tenders, tenders,
                   metadata, raised, clock, hashseed, run, first_output, group_vars, other_vars>>

\* a filter that keeps every Tender
KeepsAlsoExpired(t) == TRUE

\* a variant of line 979 that keeps a Tender one more day
KeepsSinceYesterday(t) ==
    \/ t.dates.days_until_deadline = None
    \/ t.dates.days_until_deadline.n >= 0 - 1

\* line 979: the condition of the expiry filter
Keeps(t) ==
    \/ t.dates.days_until_deadline = None
    \/ t.dates.days_until_deadline.n >= 0

\* lines 975-985
FilterExpired ==
    /\ pc = "filter"
    /\ tenders' = SelectSeq(parsed_tenders, Keeps)
    /\ pc' = "stats"
    /\ UNCHANGED <<notices, ni, notice_groups, gi, parsed_tenders, metadata,
                   raised, clock, hashseed, run, first_output, group_vars, other_vars>>

\* the number of Tenders of ts that satisfy Test
Count(ts, Test(_)) == Len(SelectSeq(ts, Test))

\* lines 990-1045: the counts by urgency label and by value bracket hold a
\* key only for a label that was counted
Statistics(ts, now) ==
    LET urgencies == {ts[i].dates.urgency_level : i \in 1..Len(ts)} \ {"EXPIRED"}
        categories == {ts[i].financial.value_category : i \in 1..Len(ts)} \ {None}
    IN  [fetched_at |-> VIso(now),
         total |-> Len(ts),
         stats |->
           [urgency |-> [u \in urgencies |->
                            Count(ts, LAMBDA t : t.dates.urgency_level = u)],
            value |-> [c \in categories |->
                            Count(ts, LAMBDA t : t.financial.value_category = c)],
            multi_lot |-> Count(ts, LAMBDA t : t.strategic.is_multi_lot)]]

\* lines 987-1055
CalculateStatistics ==
    /\ pc = "stats"
    /\ metadata' = Statistics(tenders, clock)
    /\ pc' = "done"
    /\ UNCHANGED <<notices, ni, notice_groups, gi, parsed_tenders, tenders,
                   raised, clock, hashseed, run, first_output, group_vars, other_vars>>

\* time passes while main runs
Tick ==
    /\ pc \in {"main", "group", "process", "filter", "stats"}
    /\ clock < Now0 + MaxTicks
    /\ clock' = clock + 1
    /\ UNCHANGED <<notices, pc, ni, notice_groups, gi, parsed_tenders, tenders,
                   metadata, raised, hashseed, run, first_output, group_vars, other_vars>>

\* main is run a second time, by a new interpreter, on the same records and
\* with the clock at the same instant
Rerun ==
    /\ pc = "done"
    /\ run = 1
    /\ run' = 2
    /\ first_output' = [tenders |-> tenders, metadata |-> metadata]
    /\ pc' = "main"
    /\ ni' = 1
    /\ notice_groups' = <<>>
    /\ gi' = 1
    /\ parsed_tenders' = <<>>
    /\ tenders' = <<>>
    /\ metadata' = None
    /\ clock' = Now0
    /\ hashseed' \in HashSeeds
    /\ tender' = None
    /\ group_is_multi_lot' = FALSE
    /\ group_total_lots' = 0
    /\ group_unique_lots' = {}
    /\ UNCHANGED <<notices, raised, other_vars>>

MainNext ==
    \/ NoTenders
    \/ CallDetect
    \/ GroupNotice
    \/ ParseGroup
    \/ OverrideGroup
    \/ ReturnTenders
    \/ FilterExpired
    \/ CalculateStatistics
    \/ Tick

-----------------------------------------------------------------------------
(* The urgency of one deadline: lines 473-487 of parse_tender *)

\* the latest day a deadline of the inputs falls on
MaxDeadlineDay == 26

\* the parsed deadlines: none, or an instant up to the end of MaxDeadlineDay
UrgDeadlines == {None} \cup {VIso(t) : t \in 0..(MaxDeadlineDay * TicksPerDay)}

UrgInit ==
    /\ urg_pc = "call"
    /\ urg_deadline \in UrgDeadlines
    /\ urg_days = None
    /\ urg_label = "UNKNOWN"
    /\ clock \in Now0..(Now0 + MaxTicks)
    /\ gv_pc = "idle"
    /\ gv_data = None
    /\ gv_default = None
    /\ gv_result = None
    /\ fin_pc = "idle"
    /\ fin_cur = None
    /\ fin_lot = None
    /\ fin = FinStart
    /\ fin_read_lot = FALSE
    /\ notices = <<>>
    /\ pc = "idle"
    /\ ni = 1
    /\ notice_groups = <<>>
    /\ gi = 1
    /\ parsed_tenders = <<>>
    /\ tenders = <<>>
    /\ metadata = None
    /\ raised = "none"
    /\ hashseed = 0
    /\ run = 1
    /\ first_output = None
    /\ txt_pc = "idle"
    /\ txt_notice = None
    /\ txt_count = None
    /\ fetch_pc = "idle"
    /\ api_hits = 0
    /\ page = 1
    /\ total = None
    /\ all_notices = <<>>
    /\ responses = <<>>
    /\ tender = None
    /\ group_is_multi_lot = FALSE
    /\ group_total_lots = 0
    /\ group_unique_lots = {}

\* line 474: days_until = calculate_days_until(main_deadline)
UrgDays ==
    /\ urg_pc = "call"
    /\ urg_days' = calculate_days_until(urg_deadline, clock)
    /\ urg_pc' = "label"
    /\ UNCHANGED <<urg_deadline, urg_label, gv_vars, fin_vars, main_vars, txt_vars, fetch_vars>>

\* lines 476-487: the label
UrgLabel ==
    /\ urg_pc = "label"
    /\ urg_label' = Urgency(urg_days)
    /\ urg_pc' = "done"
    /\ UNCHANGED <<urg_deadline, urg_days, gv_vars, fin_vars, main_vars, txt_vars, fetch_vars>>

UrgNext ==
    \/ UrgDays
    \/ UrgLabel

-----------------------------------------------------------------------------
(* One call of extract_lot_count_from_text on a notice whose texts carry
   several signals *)

\* most fragments in the text of one notice
MaxFragments == 3

\* numeric phrases, number-word phrases with and without a number word, and
\* LOT- mentions
Fragments ==
    { <<"Divided", "into", "3", "lots">>,
      <<"5", "delaftaler">>,
      <<"de", "to", "kategorier">>,
      <<"de", "mange", "kategorier">>,
      <<"LOT-0001", "lot-0004">>,
      <<"LOT-0002">>,
      <<"LOT-0000">> }

Flatten(fs) ==
    IF Len(fs) = 0 THEN <<>>
    ELSE IF Len(fs) = 1 THEN fs[1]
    ELSE IF Len(fs) = 2 THEN fs[1] \o fs[2]
    ELSE IF Len(fs) = 3 THEN fs[1] \o fs[2] \o fs[3]
    ELSE fs[1] \o fs[2] \o fs[3] \o fs[4]

TxtTexts == {Flatten(fs) : fs \in SeqsUpTo(Fragments, MaxFragments)}

\* the text as the description of the lot, or as a multilingual notice title
TxtNotices ==
    {VDict(<< <<"description-lot", VStr(ws)>> >>) : ws \in TxtTexts}
    \cup {VDict(<< <<"notice-title", VDict(<< <<"dan", VStr(ws)>> >>)>> >>) :
              ws \in TxtTexts}

TxtInit ==
    /\ txt_pc = "call"
    /\ txt_notice \in TxtNotices
    /\ txt_count = None
    /\ gv_pc = "idle"
    /\ gv_data = None
    /\ gv_default = None
    /\ gv_result = None
    /\ fin_pc = "idle"
    /\ fin_cur = None
    /\ fin_lot = None
    /\ fin = FinStart
    /\ fin_read_lot = FALSE
    /\ notices = <<>>
    /\ pc = "idle"
    /\ ni = 1
    /\ notice_groups = <<>>
    /\ gi = 1
    /\ parsed_tenders = <<>>
    /\ tenders = <<>>
    /\ metadata = None
    /\ raised = "none"
    /\ clock = Now0
    /\ hashseed = 0
    /\ run = 1
    /\ first_output = None
    /\ urg_pc = "idle"
    /\ urg_deadline = None
    /\ urg_days = None
    /\ urg_label = "UNKNOWN"
    /\ fetch_pc = "idle"
    /\ api_hits = 0
    /\ page = 1
    /\ total = None
    /\ all_notices = <<>>
    /\ responses = <<>>
    /\ tender = None
    /\ group_is_multi_lot = FALSE
    /\ group_total_lots = 0
    /\ group_unique_lots = {}

\* lines 238-296
TxtCall ==
    /\ txt_pc = "call"
    /\ txt_count' = extract_lot_count_from_text(txt_notice)
    /\ txt_pc' = "done"
    /\ UNCHANGED <<txt_notice, gv_vars, fin_vars, main_vars, urg_vars, fetch_vars>>

-----------------------------------------------------------------------------
(* fetch_all_tenders: the pagination loop, one iteration per step.  A record
   is held by the page it came with; a chunk is the records of one page. *)

\* line 373
max_pages == 50

\* the "limit" of a request (line 327), which line 398 compares with
PageLimit == 100

\* the most records the API has for the query
MaxHits == 5001

\* the numbers of records the API may have: those at, just above and just
\* below a multiple of the page size
HitCounts == {n \in 0..MaxHits : n % PageLimit \in {0, 1, PageLimit - 1}}

\* the records of page p when the API has hits records
PageSize(hits, p) ==
    IF hits >= p * PageLimit THEN PageLimit
    ELSE IF hits > (p - 1) * PageLimit THEN hits - (p - 1) * PageLimit
    ELSE 0

\* what fetch_tenders_page may return for page p: {} after a failed request
\* (line 348), the page the API has, a page of another size, a first page
\* without the hit count (result.get("hits", 0), line 385; the hit count of
\* a later page is never read), a first page whose hit count is null, or a
\* JSON document that is not a mapping
Responses(hits, p) ==
    {[page |-> p, ok |-> FALSE, n |-> 0, hits |-> 0, faithful |-> FALSE,
      shape |-> "mapping"],
     [page |-> p, ok |-> TRUE, n |-> PageSize(hits, p), hits |-> hits,
      faithful |-> TRUE, shape |-> "mapping"],
     [page |-> p, ok |-> TRUE, n |-> 0, hits |-> 0, faithful |-> FALSE,
      shape |-> "not_mapping"]}
    \cup {[page |-> p, ok |-> TRUE, n |-> k, hits |-> hits, faithful |-> FALSE,
           shape |-> "mapping"] :
              k \in {0, PageLimit \div 2, PageLimit} \ {PageSize(hits, p)}}
    \cup {[page |-> p, ok |-> TRUE, n |-> PageSize(hits, p), hits |-> 0,
           faithful |-> FALSE, shape |-> sh] :
              q \in {p} \cap {1}, sh \in {"mapping", "null_hits"}}

\* a variant of line 398 that looks at the reported total alone
CompleteOnTotalAlone(fetched, reported, got) == fetched >= reported

\* line 398: every reported record is fetched, or the page was a short one
Complete(fetched, reported, got) == fetched >= reported \/ got < PageLimit

\* len(all_notices)
NumRecords(chunks) ==
    LET S[i \in 0..Len(chunks)] == IF i = 0 THEN 0 ELSE S[i - 1] + chunks[i].n
    IN  S[Len(chunks)]

FetchInit ==
    /\ fetch_pc = "loop"
    /\ api_hits \in HitCounts
    /\ page = 1
    /\ total = None
    /\ all_notices = <<>>
    /\ responses = <<>>
    /\ gv_pc = "idle"
    /\ gv_data = None
    /\ gv_default = None
    /\ gv_result = None
    /\ fin_pc = "idle"
    /\ fin_cur = None
    /\ fin_lot = None
    /\ fin = FinStart
    /\ fin_read_lot = FALSE
    /\ notices = <<>>
    /\ pc = "idle"
    /\ ni = 1
    /\ notice_groups = <<>>
    /\ gi = 1
    /\ parsed_tenders = <<>>
    /\ tenders = <<>>
    /\ metadata = None
    /\ raised = "none"
    /\ clock = Now0
    /\ hashseed = 0
    /\ run = 1
    /\ first_output = None
    /\ urg_pc = "idle"
    /\ urg_deadline = None
    /\ urg_days = None
    /\ urg_label = "UNKNOWN"
    /\ txt_pc = "idle"
    /\ txt_notice = None
    /\ txt_count = None
    /\ tender = None
    /\ group_is_multi_lot = FALSE
    /\ group_total_lots = 0
    /\ group_unique_lots = {}

\* lines 378-382: the request failed, the loop is left
FetchFailed ==
    /\ fetch_pc = "loop"
    /\ page <= max_pages
    /\ \E result \in Responses(api_hits, page) :
          /\ ~result.ok
          /\ responses' = Append(responses, result)
    /\ fetch_pc' = "done"
    /\ UNCHANGED <<api_hits, page, total, all_notices, gv_vars, fin_vars, main_vars, urg_vars, txt_vars>>

\* lines 378-403: the request succeeded and its result can be read
FetchPage ==
    /\ fetch_pc = "loop"
    /\ page <= max_pages
    /\ \E result \in Responses(api_hits, page) :
          /\ result.ok
          /\ result.shape # "not_mapping"
          /\ result.shape = "null_hits" => result.n = 0
          /\ responses' = Append(responses, result)
          /\ total' = IF page # 1 THEN total
                       ELSE IF result.shape = "null_hits" THEN None
                       ELSE VInt(result.hits)
          /\ IF result.n = 0
             THEN /\ fetch_pc' = "done"
                  /\ UNCHANGED <<page, all_notices>>
             ELSE /\ all_notices' = Append(all_notices, [page |-> page, n |-> result.n])
                  /\ IF Complete(NumRecords(all_notices) + result.n, total'.n,
                                 result.n)
                     THEN /\ fetch_pc' = "done"
                          /\ page' = page
                     ELSE /\ fetch_pc' = "loop"
                          /\ page' = page + 1
    /\ UNCHANGED <<api_hits, gv_vars, fin_vars, main_vars, urg_vars, txt_vars>>

\* lines 384-398: the result has no get (line 384), or the hit count of the
\* first page is null and cannot be compared (line 398); the exception
\* leaves fetch_all_tenders
FetchRaises ==
    /\ fetch_pc = "loop"
    /\ page <= max_pages
    /\ \E result \in Responses(api_hits, page) :
          /\ result.ok
          /\ \/ /\ result.shape = "not_mapping"
                /\ UNCHANGED <<total, all_notices>>
             \/ /\ result.shape = "null_hits"
                /\ result.n > 0
                /\ total' = None
                /\ all_notices' = Append(all_notices, [page |-> page, n |-> result.n])
          /\ responses' = Append(responses, result)
    /\ fetch_pc' = "raised"
    /\ UNCHANGED <<api_hits, page, gv_vars, fin_vars, main_vars, urg_vars, txt_vars>>

\* line 375: the page counter has passed max_pages
FetchMaxPages ==
    /\ fetch_pc = "loop"
    /\ page > max_pages
    /\ fetch_pc' = "done"
    /\ UNCHANGED <<api_hits, page, total, all_notices, responses, gv_vars, fin_vars, main_vars, urg_vars, txt_vars>>

FetchNext ==
    \/ FetchFailed
    \/ FetchPage
    \/ FetchRaises
    \/ FetchMaxPages

-----------------------------------------------------------------------------
(* Specifications *)

\* one run of main on a batch of records
Spec == MainInit /\ [][MainNext]_vars

\* two runs of main on the same batch
SpecRerun == MainInit /\ [][MainNext \/ Rerun]_vars

\* one call of get_value
SpecGetValue == GvInit /\ [][GvCall]_vars

\* the financial section of parse_tender on one pair of amount fields
SpecFinancial == FinInit /\ [][FinNext]_vars

\* the urgency of one deadline
SpecUrgency == UrgInit /\ [][UrgNext]_vars

\* one call of extract_lot_count_from_text
SpecText == TxtInit /\ [][TxtCall]_vars

\* one call of fetch_all_tenders
SpecFetch == FetchInit /\ [][FetchNext]_vars

\* one call of fetch_all_tenders that keeps running: every request returns
\* within REQUEST_TIMEOUT (line 339) and the loop sleeps half a second
SpecFetchRuns == SpecFetch /\ WF_vars(FetchNext)

-----------------------------------------------------------------------------
(* What the claims speak of, computed from the batch main was run on *)

\* the grouping key can be obtained from the record
Keyed(r) == r.k = "dict" /\ Truthy(Get(r, "notice-identifier"))

\* the distinct notice identifiers of the batch
Keys == {Get(notices[i], "notice-identifier") :
            i \in {j \in 1..Len(notices) : Keyed(notices[j])}}

\* the records of the batch that carry the key, in input order
RecordsOf(key) ==
    SelectSeq(notices, LAMBDA r : Keyed(r) /\ Get(r, "notice-identifier") = key)

\* detect_and_process_multilot has returned its Tenders to main
Returned == pc \in {"filter", "stats", "done"}

\* the Tenders emitted for the key
TendersOf(key) ==
    {i \in 1..Len(parsed_tenders) : parsed_tenders[i].notice_identifier = key}

-----------------------------------------------------------------------------
\* C1: a group whose distinct non-sentinel lot identifiers, collected over
\* all of its records, number n >= 2 gets a Tender with is_multi_lot = true
\* and total_lots = n.
C1_LotsCountedOverGroup ==
    Returned =>
        \A key \in Keys :
            LET n == Cardinality(LotIdsOfAllRecords(RecordsOf(key))) IN
            n >= 2 =>
                \E i \in TendersOf(key) :
                    /\ parsed_tenders[i].strategic.is_multi_lot
                    /\ parsed_tenders[i].strategic.total_lots = n

\* C2: every run emits exactly one Tender per distinct notice identifier of
\* the batch, and never two with the same identifier.
C2_OneTenderPerKey ==
    pc \in {"filter", "stats", "done", "raised"} =>
        \A key \in Keys : Cardinality(TendersOf(key)) = 1

\* what holds of C2 whenever detect_and_process_multilot returns
C2_OneTenderPerKeyOnReturn ==
    Returned =>
        /\ \A key \in Keys : Cardinality(TendersOf(key)) = 1
        /\ Len(parsed_tenders) = Cardinality(Keys)

\* C3: in a batch of mappings no shape of a field value makes the run end in
\* an exception, and a Tender is emitted for every keyed group.
C3_NoExceptionEscapes ==
    (\A i \in 1..Len(notices) : notices[i].k = "dict") =>
        /\ pc # "raised"
        /\ Returned => \A key \in Keys : TendersOf(key) # {}

\* C4: a record whose grouping key cannot be obtained (missing, empty, or
\* the record is no mapping) raises nothing and yields no Tender, and the
\* Tenders are those of the batch without it.
C4_KeylessRecordSkippedSilently ==
    /\ ~(/\ pc = "raised"
         /\ ni <= Len(notices)
         /\ ~Keyed(notices[ni]))
    /\ Returned =>
          /\ \A i \in 1..Len(parsed_tenders) :
                 parsed_tenders[i].notice_identifier \in Keys
          /\ Len(parsed_tenders) = Cardinality(Keys)

\* C5: the expiry filter drops exactly the Tenders whose days_until_deadline
\* is a negative number; a Tender without a deadline is kept, and one whose
\* deadline lay a day before the clock read at its parsing is EXPIRED and
\* dropped.
C5_FilterDropsExactlyExpired ==
    pc \in {"stats", "done"} =>
        \A i \in 1..Len(parsed_tenders) :
            LET t == parsed_tenders[i]
                d == t.dates.days_until_deadline
                kept == \E j \in 1..Len(tenders) : tenders[j] = t
            IN  /\ kept <=> ~(d # None /\ d.n < 0)
                /\ t.dates.deadline_main = None => d = None /\ kept
                /\ (/\ t.dates.deadline_main # None
                    /\ t.dates.deadline_main.t = t.metadata.fetched_at.t - TicksPerDay)
                   => t.dates.urgency_level = "EXPIRED" /\ ~kept

\* reached: of two Tenders, the one whose deadline was a day past is dropped
\* and the one without a deadline is kept
C5_Witness ==
    /\ pc = "done"
    /\ Len(tenders) = 1
    /\ tenders[1].dates.deadline_main = None
    /\ \E i \in 1..Len(parsed_tenders) :
          /\ parsed_tenders[i].dates.days_until_deadline = VInt(-1)
          /\ parsed_tenders[i].dates.urgency_level = "EXPIRED"

\* C6: when a group has exactly one non-sentinel lot identifier, the count c
\* that free-text inference gives for the group's first record decides:
\* c > 1 makes the Tender multi-lot with total_lots = c, no count or c <= 1
\* makes it single-lot with total_lots = 1.
C6_TextDecidesForOneIdentifier ==
    Returned =>
        \A key \in Keys :
            Cardinality(LotIdsOfAllRecords(RecordsOf(key))) = 1 =>
                LET c == extract_lot_count_from_text(RecordsOf(key)[1]) IN
                \A i \in TendersOf(key) :
                    LET st == parsed_tenders[i].strategic IN
                    IF c.k = "int" /\ c.n > 1
                    THEN st.is_multi_lot /\ st.total_lots = c.n
                    ELSE ~st.is_multi_lot /\ st.total_lots = 1

\* C7: a group without any non-sentinel lot identifier gets a single-lot
\* Tender with total_lots = 1, whatever its texts say.
C7_NoIdentifierIsSingleLot ==
    \A key \in Keys :
        LotIdsOfAllRecords(RecordsOf(key)) = {} =>
            \A i \in TendersOf(key) :
                /\ ~parsed_tenders[i].strategic.is_multi_lot
                /\ parsed_tenders[i].strategic.total_lots = 1

\* reached: a Tender for a group that has only the sentinel identifier and a
\* text that says "divided into 3 lots"
C7_Witness ==
    \E key \in Keys :
        /\ LotIdsOfAllRecords(RecordsOf(key)) = {}
        /\ extract_lot_count_from_text(RecordsOf(key)[1]) = VInt(3)
        /\ TendersOf(key) # {}
        /\ \A i \in TendersOf(key) : parsed_tenders[i].strategic.total_lots = 1

\* C9: two runs of main on the same records, started at the same instant,
\* write the same Tenders in the same order and the same statistics.
C9_SecondRunWritesTheSame ==
    (run = 2 /\ pc = "done") =>
        /\ tenders = first_output.tenders
        /\ IF metadata = None \/ first_output.metadata = None
           THEN metadata = first_output.metadata
           ELSE /\ metadata.total = first_output.metadata.total
                /\ metadata.stats = first_output.metadata.stats

\* C8: for every raw field value (null, scalar, sequence of scalars, mapping
\* from language code to scalar-or-sequence) and every default, get_value
\* does not raise and returns a scalar or the given default, never a
\* mapping or a sequence.
C8_ScalarOrDefault ==
    gv_pc = "done" =>
        /\ ~IsRaise(gv_result)
        /\ gv_result = gv_default \/ IsScalar(gv_result)

\* reached: a mapping without a priority language whose first value is a
\* sequence gave that sequence's first element
C8_Witness ==
    /\ gv_pc = "done"
    /\ gv_data.k = "dict"
    /\ Truthy(gv_data)
    /\ ~HasKey(gv_data, "eng") /\ ~HasKey(gv_data, "dan")
    /\ gv_data.es[1][2].k = "list"
    /\ Truthy(gv_data.es[1][2])
    /\ gv_result = gv_data.es[1][2].xs[1]
    /\ gv_result # gv_default

\* C10: the currency-less field estimated-value-lot is read if and only if
\* estimated-value-cur-lot yields no reference amount; when the first field
\* yields an amount, the financial section is the one the first field gives
\* alone, and when it yields none, the reference amount is the one the
\* second field yields.
C10_FallbackIffFirstNull ==
    fin_pc = "done" =>
        LET first == TryCurrencyTagged(FinStart, fin_cur) IN
        /\ fin_read_lot <=> first.value_eur = None
        /\ first.value_eur # None => fin = Financial(fin_cur, None)
        /\ first.value_eur = None =>
                fin.value_eur = TryCurrencyLess(FinStart, fin_lot).value_eur

\* reached: both fields carry a convertible amount, the two amounts differ,
\* and the section holds the first field's
C10_Witness ==
    /\ fin_pc = "done"
    /\ TryCurrencyTagged(FinStart, fin_cur).value_eur # None
    /\ TryCurrencyLess(FinStart, fin_lot).value_eur # None
    /\ TryCurrencyLess(FinStart, fin_lot).value_eur
            # TryCurrencyTagged(FinStart, fin_cur).value_eur
    /\ fin.value_eur = TryCurrencyTagged(FinStart, fin_cur).value_eur
    /\ ~fin_read_lot

-----------------------------------------------------------------------------
\* C11: a parseable non-zero amount of estimated-value-cur-lot paired with a
\* currency code outside CURRENCY_RATES gives value_eur equal to the amount
\* (multiplier 1.0); paired with a code of the table, in any letter case, it
\* gives the amount times that code's rate.
C11_RateByCode ==
    fin_pc = "done" =>
        LET d == Unlist(fin_cur) IN
        (Truthy(fin_cur) /\ d.k = "dict") =>
            LET amount == DictGet(d, "amount", None)
                currency == DictGet(d, "currency", VStr(<<"EUR">>))
            IN  (/\ Truthy(amount)
                 /\ ~IsRaise(ToFloat(amount))
                 /\ Truthy(ToFloat(amount))
                 /\ currency.k = "str"
                 /\ Len(currency.w) = 1) =>
                    LET a == ToFloat(amount)
                        known == {c \in RateCodes :
                                    LowerWord(c) = LowerWord(currency.w[1])}
                    IN  /\ fin.value_original = a
                        /\ known = {} => fin.value_eur = a
                        /\ \A c \in known :
                               fin.value_eur = TimesRate(a, CURRENCY_RATES(c))

\* reached: 12000 in the unknown code XXX is kept as 12000.0
C11_Witness ==
    /\ fin_pc = "done"
    /\ fin_cur = VDict(<< <<"amount", VInt(12000)>>,
                          <<"currency", VStr(<<"XXX">>)>> >>)
    /\ fin.value_original = VFloat(12000, 0)
    /\ fin.value_eur = VFloat(12000, 0)

\* reached: 12000 in the code dkk, written in lower case, is converted at the
\* rate of DKK to 1608.0
C11_LowerCaseCode ==
    /\ fin_pc = "done"
    /\ fin_cur = VDict(<< <<"amount", VStr(<<"12000">>)>>,
                          <<"currency", VStr(<<"dkk">>)>> >>)
    /\ fin.value_eur = VFloat(1608, 0)

\* C12: the urgency label is decided by days-until-deadline alone: EXPIRED
\* for d < 0, CRITICAL for 0 <= d <= 7, MODERATE for 8 <= d <= 14, NORMAL
\* for d > 14, and UNKNOWN exactly when d is null, which is exactly when
\* there is no deadline.
C12_UrgencyBands ==
    urg_pc = "done" =>
        /\ urg_days = None <=> urg_deadline = None
        /\ urg_label = "UNKNOWN" <=> urg_days = None
        /\ urg_days # None =>
              LET d == urg_days.n IN
              /\ urg_label = "EXPIRED" <=> d < 0
              /\ urg_label = "CRITICAL" <=> (0 <= d /\ d <= 7)
              /\ urg_label = "MODERATE" <=> (8 <= d /\ d <= 14)
              /\ urg_label = "NORMAL" <=> d > 14

\* reached: a deadline exactly seven days ahead is still CRITICAL
C12_Witness ==
    /\ urg_pc = "done"
    /\ urg_deadline # None
    /\ urg_deadline.t = clock + 7 * TicksPerDay
    /\ urg_days = VInt(7)
    /\ urg_label = "CRITICAL"

\* C13: the value bracket is decided by the reference-currency amount v:
\* MICRO for v < 50,000, SMALL for 50,000 <= v < 500,000, MEDIUM for
\* 500,000 <= v < 5,000,000, LARGE for 5,000,000 <= v < 50,000,000, MEGA
\* for v >= 50,000,000; it is null exactly when v is null or zero.
C13_ValueBrackets ==
    fin_pc = "done" =>
        LET v == fin.value_eur
            label == fin.value_category
            zero == v = VFloat(0, 0)
        IN  /\ label = None <=> (v = None \/ zero)
            /\ (v # None /\ ~zero) =>
                  /\ label = VStr(<<"MICRO">>) <=> v.u < 50000
                  /\ label = VStr(<<"SMALL">>) <=> (50000 <= v.u /\ v.u < 500000)
                  /\ label = VStr(<<"MEDIUM">>) <=> (500000 <= v.u /\ v.u < 5000000)
                  /\ label = VStr(<<"LARGE">>) <=> (5000000 <= v.u /\ v.u < 50000000)
                  /\ label = VStr(<<"MEGA">>) <=> 50000000 <= v.u

\* reached: an amount of exactly 50,000 is SMALL
C13_Witness ==
    /\ fin_pc = "done"
    /\ fin.value_eur = VFloat(50000, 0)
    /\ fin.value_category = VStr(<<"SMALL">>)

\* C14: the count inferred from the texts follows the priority numeric
\* phrase > number-word phrase > LOT- mentions.  When one of the numeric
\* phrases occurs, the count is the number of a numeric phrase; otherwise,
\* when the leftmost "de ... kategorier" phrase holds a number, the count is
\* that number; the mention-based count (the largest lot number of two or
\* more mentions) is the result only when neither yields a number.
C14_PhrasesBeforeMentions ==
    txt_pc = "done" =>
        LET ws == JoinTexts(txt_notice).w
            numeric == {p \in 1..4 : Matches(ws, Patterns[p])}
            word == IF Matches(ws, Patterns[5]) THEN Group1(ws, Patterns[5])
                    ELSE "none"
        IN  /\ numeric # {} =>
                  \E p \in numeric :
                      txt_count = VInt(NumeralValue(Group1(ws, Patterns[p])))
            /\ (numeric = {} /\ word \in Numerals) =>
                  txt_count = VInt(NumeralValue(word))
            /\ (numeric = {} /\ word \in DanishWords) =>
                  txt_count = VInt(danish_numbers(word))
            /\ (numeric = {} /\ word \notin Numerals \cup DanishWords) =>
                  txt_count = FromMentions(ws)

\* reached: a text with "de to kategorier", then "divided into 3 lots", then
\* mentions of LOT-0001 and LOT-0004 gives 3
C14_Witness ==
    /\ txt_pc = "done"
    /\ txt_notice = VDict(<< <<"description-lot",
            VStr(<<"de", "to", "kategorier", "Divided", "into", "3", "lots",
                   "LOT-0001", "lot-0004">>)>> >>)
    /\ FromMentions(JoinTexts(txt_notice).w) = VInt(4)
    /\ txt_count = VInt(3)

\* reached: a number-word phrase wins over the mentions
C14_WordBeforeMentions ==
    /\ txt_pc = "done"
    /\ txt_notice = VDict(<< <<"notice-title", VDict(<< <<"dan",
            VStr(<<"LOT-0001", "lot-0004", "de", "to", "kategorier">>)>> >>)>> >>)
    /\ txt_count = VInt(2)

\* every request so far succeeded and returned the page the API has
AllFaithful == \A i \in 1..Len(responses) : responses[i].faithful

\* C15: whenever every page request succeeds, fetch_all_tenders returns
\* every record the API has for the query: as many records as the hit count
\* of page 1, the pages in the order 1, 2, 3, ...
C15_FetchesAll ==
    (fetch_pc = "done" /\ AllFaithful) =>
        /\ NumRecords(all_notices) = api_hits
        /\ \A i \in 1..Len(all_notices) : all_notices[i].page = i

\* what holds of C15: the records returned are the first pages, in order, and
\* they are all the records when the API has no more than max_pages pages
C15_FetchesAllUpToMaxPages ==
    (fetch_pc = "done" /\ AllFaithful) =>
        /\ \A i \in 1..Len(all_notices) : all_notices[i].page = i
        /\ api_hits <= max_pages * PageLimit => NumRecords(all_notices) = api_hits
        /\ api_hits > max_pages * PageLimit =>
               NumRecords(all_notices) = max_pages * PageLimit

\* C16: every Tender that detect_and_process_multilot emits has
\* total_lots >= 1, and is_multi_lot is true exactly when total_lots > 1.
C16_MultiLotIffSeveralLots ==
    \A i \in 1..Len(parsed_tenders) :
        LET st == parsed_tenders[i].strategic IN
        /\ st.total_lots >= 1
        /\ st.is_multi_lot <=> st.total_lots > 1

\* reached: a Tender made multi-lot by its text next to one whose text says
\* "divided into 1 lots" and which is single-lot
C16_Witness ==
    /\ Returned
    /\ \E i, j \in 1..Len(parsed_tenders) :
          /\ parsed_tenders[i].strategic.is_multi_lot
          /\ parsed_tenders[i].strategic.total_lots = 5
          /\ ~parsed_tenders[j].strategic.is_multi_lot
          /\ parsed_tenders[j].strategic.total_lots = 1
          /\ extract_lot_count_from_text(RecordsOf(parsed_tenders[j].notice_identifier)[1])
                 = VInt(1)

-----------------------------------------------------------------------------
\* C17: the is_multi_lot that parse_tender computes itself from the
\* total_lots and lot_identifiers it is given equals the group's is_multi_lot
\* that detect_and_process_multilot then writes over it: the override never
\* changes the flag
C17_OverrideKeepsFlag ==
    pc = "override" => (tender.strategic.is_multi_lot <=> group_is_multi_lot)

\* a group with one lot identifier that its text makes a multi-lot tender
\* has been parsed and waits for the override
C17_Witness ==
    /\ pc = "override"
    /\ Cardinality(group_unique_lots) = 1
    /\ group_total_lots > 1
    /\ group_is_multi_lot
    /\ tender.strategic.is_multi_lot

-----------------------------------------------------------------------------
\* the sum of the counts of a statistics table over the keys in S
RECURSIVE SumOfCounts(_, _)
SumOfCounts(counts, S) ==
    IF S = {} THEN 0
    ELSE LET u == CHOOSE x \in S : TRUE
         IN  counts[u] + SumOfCounts(counts, S \ {u})

\* C18: after the expiry filter no emitted Tender has urgency_level EXPIRED
\* or is_expired true, so the urgency counts of the statistics hold no
\* EXPIRED key and add up to the number of emitted Tenders (metadata total)
C18_NoExpiredEmitted ==
    /\ pc \in {"stats", "done"} =>
          \A i \in 1..Len(tenders) :
              /\ tenders[i].dates.urgency_level # "EXPIRED"
              /\ ~tenders[i].dates.is_expired
    /\ (pc = "done" /\ metadata # None) =>
          /\ "EXPIRED" \notin DOMAIN metadata.stats.urgency
          /\ SumOfCounts(metadata.stats.urgency, DOMAIN metadata.stats.urgency)
                 = metadata.total
          /\ metadata.total = Len(tenders)

\* the statistics are written, an expired Tender was dropped by the filter
\* and a Tender was emitted
C18_Witness ==
    /\ pc = "done"
    /\ metadata # None
    /\ \E i \in 1..Len(parsed_tenders) : parsed_tenders[i].dates.is_expired
    /\ metadata.total >= 1
    /\ SumOfCounts(metadata.stats.urgency, DOMAIN metadata.stats.urgency) >= 1

-----------------------------------------------------------------------------
\* C19: for every Tender of parse_tender, whatever the shape of the two
\* amount fields, financial.value_eur is null exactly when
\* financial.value_original is null
C19_EurNullIffOriginalNull ==
    fin_pc = "done" => (fin.value_eur = None <=> fin.value_original = None)

\* the half of C19 that the code keeps: an amount in the reference currency
\* is never recorded without the original amount
C19_EurHasOriginal ==
    fin_pc = "done" => (fin.value_eur # None => fin.value_original # None)

-----------------------------------------------------------------------------
\* the position in the input of the first record that carries the key
FirstRecord(key) ==
    CHOOSE n \in 1..Len(notices) :
        /\ Keyed(notices[n]) /\ Get(notices[n], "notice-identifier") = key
        /\ \A m \in 1..(n - 1) :
              ~(Keyed(notices[m]) /\ Get(notices[m], "notice-identifier") = key)

\* the Tenders of ts stand in the order of the first records of their keys
InFirstRecordOrder(ts) ==
    \A i, j \in 1..Len(ts) :
        i < j <=> FirstRecord(ts[i].notice_identifier)
                    < FirstRecord(ts[j].notice_identifier)

\* C20: the Tenders are emitted in the order in which their notice identifier
\* first occurs in the input, and the expiry filter keeps that relative
\* order: A precedes B in the output exactly when the first record with A's
\* key precedes the first record with B's key
C20_FirstOccurrenceOrder ==
    /\ Returned => InFirstRecordOrder(parsed_tenders)
    /\ pc \in {"stats", "done"} => InFirstRecordOrder(tenders)

\* three procurements with interleaved records were parsed, the expired one
\* in the middle was dropped and two Tenders were emitted
C20_Witness ==
    /\ pc = "done"
    /\ Len(notices) = 4
    /\ Len(parsed_tenders) = 3
    /\ Len(tenders) = 2
    /\ tenders[1].notice_identifier = VStr(<<"P2">>)
    /\ tenders[2].notice_identifier = VStr(<<"P3">>)

-----------------------------------------------------------------------------
\* the request for page i was followed by another request
Continued(i) == i < Len(responses)

\* the requests made so far are for the pages 1, 2, 3, ..., no more than
\* max_pages of them; a request was followed by another one only if it
\* succeeded with a full page that left the count of records below the total
\* reported on page 1; what is returned is what the pages brought
FetchIsBounded ==
    /\ Len(responses) <= max_pages
    /\ \A i \in 1..Len(responses) :
          /\ responses[i].page = i
          /\ Continued(i) =>
                /\ responses[i].ok
                /\ responses[i].shape = "mapping"
                /\ responses[i].n > 0
                /\ responses[i].n >= PageLimit
                /\ NumRecords(SubSeq(responses, 1, i)) < responses[1].hits
    /\ fetch_pc = "done" => NumRecords(all_notices) = NumRecords(responses)

\* C21: fetch_all_tenders always terminates after at most 50 page requests,
\* whatever the API returns: the page counter only increases, the loop is
\* left on the first failed or empty page with the records accumulated so
\* far, and no page is requested after a page of fewer than 100 records or
\* after the accumulated count has reached the total reported on page 1
C21_EndsWithinMaxPages ==
    /\ []FetchIsBounded
    /\ [][page' >= page]_vars
    /\ <>(fetch_pc \in {"done", "raised"})

\* the fiftieth request was made after forty-nine full pages and failed, and
\* the forty-nine pages are returned
C21_Witness ==
    /\ fetch_pc = "done"
    /\ Len(responses) = max_pages
    /\ ~responses[max_pages].ok
    /\ Len(all_notices) = max_pages - 1
    /\ page = max_pages

====
